---- MODULE Spec2Model ----
(***************************************************************************)
(* One run of a launcher of final-project-server: chat.py, ocr_meta.py,    *)
(* ocr_tx.py or watch_gpu.py.  A run loads the module-level constants from *)
(* the environment, parses the command line, checks the input files,       *)
(* builds the argument vector, runs the external program and relays its    *)
(* result.                                                                 *)
(*                                                                         *)
(* Text is a sequence of one-character strings, so that int(), float(),    *)
(* str(), Path(), str.lower() and str.strip() are computed on characters.  *)
(***************************************************************************)
EXTENDS Integers, Sequences, FiniteSets, TLC

(***************************************************************************)
(* Text conversions of the Python runtime used by the launchers.           *)
(***************************************************************************)
Whitespace == {" ", "\t", "\n", "\r"}

RECURSIVE LStrip(_)
LStrip(s) ==
  IF s # <<>> /\ Head(s) \in Whitespace THEN LStrip(Tail(s)) ELSE s

RECURSIVE RStrip(_)
RStrip(s) ==
  IF s # <<>> /\ s[Len(s)] \in Whitespace
  THEN RStrip(SubSeq(s, 1, Len(s) - 1))
  ELSE s

\* str.strip()
Strip(s) == RStrip(LStrip(s))

Digits == <<"0", "1", "2", "3", "4", "5", "6", "7", "8", "9">>

IsDigit(c) == \E i \in 1..10 : Digits[i] = c

DigitVal(c) == (CHOOSE i \in 1..10 : Digits[i] = c) - 1

\* digits, single underscores allowed between two digits
ValidDigits(b) ==
  /\ b # <<>>
  /\ \A i \in 1..Len(b) :
       \/ IsDigit(b[i])
       \/ /\ b[i] = "_"
          /\ i > 1
          /\ i < Len(b)
          /\ IsDigit(b[i - 1])
          /\ IsDigit(b[i + 1])

RECURSIVE DigitsValue(_, _)
DigitsValue(b, acc) ==
  IF b = <<>> THEN acc
  ELSE IF Head(b) = "_" THEN DigitsValue(Tail(b), acc)
  ELSE DigitsValue(Tail(b), acc * 10 + DigitVal(Head(b)))

\* int(s) of a str: [ok |-> FALSE] stands for ValueError
ParseInt(s) ==
  LET t == Strip(s)
      signed == t # <<>> /\ t[1] \in {"+", "-"}
      b == IF signed THEN Tail(t) ELSE t
  IN IF ValidDigits(b)
     THEN [ok |-> TRUE,
           val |-> (IF signed /\ t[1] = "-" THEN -1 ELSE 1) * DigitsValue(b, 0)]
     ELSE [ok |-> FALSE, val |-> 0]

RECURSIVE NatToStr(_)
NatToStr(n) ==
  IF n < 10 THEN <<Digits[n + 1]>>
  ELSE NatToStr(n \div 10) \o <<Digits[(n % 10) + 1]>>

\* faulty variant: a str(int) that pads a single digit to two characters
IntToStrPadded(n) ==
  IF n < 0 THEN <<"-">> \o NatToStr(-n)
  ELSE IF n < 10 THEN <<"0">> \o NatToStr(n) ELSE NatToStr(n)

\* str(n) of an int
IntToStr(n) == IF n < 0 THEN <<"-">> \o NatToStr(-n) ELSE NatToStr(n)

RECURSIVE DropTrailingZeros(_)
DropTrailingZeros(d) ==
  IF d # <<>> /\ d[Len(d)] = "0"
  THEN DropTrailingZeros(SubSeq(d, 1, Len(d) - 1))
  ELSE d

DotAt(b) == IF \E i \in 1..Len(b) : b[i] = "."
            THEN CHOOSE i \in 1..Len(b) : b[i] = "." /\ \A j \in 1..(i - 1) : b[j] # "."
            ELSE 0

\* float(s) of a str in plain decimal notation ([sign] digits [. digits]);
\* a float is kept as sign, integer part and fraction digits.  Exponents,
\* "inf" and "nan" are not among the inputs drawn below.
ParseFloat(s) ==
  LET t == Strip(s)
      signed == t # <<>> /\ t[1] \in {"+", "-"}
      b == IF signed THEN Tail(t) ELSE t
      k == DotAt(b)
      ip == IF k = 0 THEN b ELSE SubSeq(b, 1, k - 1)
      fp == IF k = 0 THEN <<>> ELSE SubSeq(b, k + 1, Len(b))
      good == /\ ip # <<>> \/ fp # <<>>
              /\ ip = <<>> \/ ValidDigits(ip)
              /\ fp = <<>> \/ ValidDigits(fp)
  IN IF good
     THEN [ok |-> TRUE,
           val |-> [neg |-> signed /\ t[1] = "-",
                    ip |-> DigitsValue(ip, 0),
                    fr |-> DropTrailingZeros(SelectSeq(fp, LAMBDA c : c # "_"))]]
     ELSE [ok |-> FALSE, val |-> [neg |-> FALSE, ip |-> 0, fr |-> <<>>]]

\* str(x) of a float (shortest repr; the inputs stay within 1e-4 .. 1e16)
FloatToStr(x) ==
  (IF x.neg THEN <<"-">> ELSE <<>>) \o NatToStr(x.ip) \o <<".">>
    \o (IF x.fr = <<>> THEN <<"0">> ELSE x.fr)

Upper == <<"A", "B", "C", "D", "E", "F", "G", "H", "I", "J", "K", "L", "M", "N", "O", "P", "Q", "R", "S", "T", "U", "V", "W", "X", "Y", "Z">>

LowerAlpha == <<"a", "b", "c", "d", "e", "f", "g", "h", "i", "j", "k", "l", "m", "n", "o", "p", "q", "r", "s", "t", "u", "v", "w", "x", "y", "z">>

LowerChar(c) ==
  IF \E i \in 1..26 : Upper[i] = c
  THEN LowerAlpha[CHOOSE i \in 1..26 : Upper[i] = c]
  ELSE c

\* str.lower()
Lower(s) == [i \in 1..Len(s) |-> LowerChar(s[i])]

RECURSIVE SplitPath(_, _, _)
SplitPath(s, cur, acc) ==
  IF s = <<>> THEN (IF cur = <<>> THEN acc ELSE Append(acc, cur))
  ELSE IF Head(s) = "/"
       THEN SplitPath(Tail(s), <<>>, IF cur = <<>> THEN acc ELSE Append(acc, cur))
       ELSE SplitPath(Tail(s), Append(cur, Head(s)), acc)

\* the components pathlib keeps: empty ones and "." are dropped
Parts(s) == SelectSeq(SplitPath(s, <<>>, <<>>), LAMBDA c : c # <<".">>)

RECURSIVE LeadingSlashes(_)
LeadingSlashes(s) ==
  IF s # <<>> /\ Head(s) = "/" THEN 1 + LeadingSlashes(Tail(s)) ELSE 0

\* POSIX root: exactly two leading slashes are kept, any other number is one
Root(s) ==
  LET n == LeadingSlashes(s)
  IN IF n = 0 THEN <<>> ELSE IF n = 2 THEN <<"/", "/">> ELSE <<"/">>

RECURSIVE JoinWith(_, _)
JoinWith(parts, sep) ==
  IF parts = <<>> THEN <<>>
  ELSE IF Len(parts) = 1 THEN parts[1]
  ELSE parts[1] \o sep \o JoinWith(Tail(parts), sep)

RenderPath(root, parts) ==
  IF root = <<>> /\ parts = <<>> THEN <<".">> ELSE root \o JoinWith(parts, <<"/">>)

\* str(Path(s))
PathStr(s) == RenderPath(Root(s), Parts(s))

\* str(Path(a) / b) for a relative b
JoinPath(a, b) == RenderPath(Root(a), Parts(a) \o Parts(b))

(***************************************************************************)
(* The launchers and their module-level configuration.                     *)
(***************************************************************************)
Launchers == {"chat", "ocr_meta", "ocr_tx", "watch_gpu"}

OcrLaunchers == {"ocr_meta", "ocr_tx"}

\* capture mode buffers the child's output; streaming mode inherits stdio
CaptureMode(l) == l \in OcrLaunchers

\* SCRIPT_DIR: the resolved directory of the script (absolute)
ScriptDir == <<"/", "s">>

DataDirDefault == JoinPath(ScriptDir, <<"d", "a", "t", "a">>)

ModelFile == <<"g", "e", "m", "m", "a", "-", "3", "-", "4", "b", "-", "i", "t", "-", "Q", "5", "_", "K", "_", "M", ".", "g", "g", "u", "f">>

MmprojFile == <<"m", "m", "p", "r", "o", "j", "-", "B", "F", "1", "6", ".", "g", "g", "u", "f">>

ImageFile == <<"t", "e", "m", "p", ".", "p", "n", "g">>

\* the default prompts, abbreviated to their opening words
MetadataPromptText == <<"E", "x", "t", "r", "a", "c", "t", " ", "m", "e", "t", "a", "d", "a", "t", "a", " ", "f", "r", "o", "m", " ", "t", "h", "e", " ", "b", "a", "n", "k", " ", "s", "t", "a", "t", "e", "m", "e", "n", "t", " ", "i", "m", "a", "g", "e">>

TransactionsPromptText == <<"E", "x", "t", "r", "a", "c", "t", " ", "t", "r", "a", "n", "s", "a", "c", "t", "i", "o", "n", " ", "r", "o", "w", "s", " ", "f", "r", "o", "m", " ", "t", "h", "e", " ", "b", "a", "n", "k", " ", "s", "t", "a", "t", "e", "m", "e", "n", "t", " ", "i", "m", "a", "g", "e">>

\* name: the module constant; var: the environment variable; dflt: the
\* built-in default; conv: how the looked-up text is converted
\* ("datafile": the default is the file dflt inside DATA_DIR)
ChatConstants == <<
  [name |-> "DEFAULT_MODEL_PATH", var |-> "MODEL_PATH", dflt |-> ModelFile, conv |-> "datafile"],
  [name |-> "DEFAULT_PORT", var |-> "SERVER_PORT", dflt |-> <<"4", "0", "0", "0">>, conv |-> "int"],
  [name |-> "DEFAULT_NGL", var |-> "N_GPU_LAYERS", dflt |-> <<"4", "8">>, conv |-> "int"],
  [name |-> "DEFAULT_CTX", var |-> "CONTEXT_SIZE", dflt |-> <<"8", "1", "9", "2">>, conv |-> "int"],
  [name |-> "DEFAULT_BATCH_SIZE", var |-> "BATCH_SIZE", dflt |-> <<"5", "1", "2">>, conv |-> "int"],
  [name |-> "DEFAULT_UBATCH_SIZE", var |-> "UBATCH_SIZE", dflt |-> <<"1", "2", "8">>, conv |-> "int"],
  [name |-> "DEFAULT_CACHE_TYPE_K", var |-> "CACHE_TYPE_K", dflt |-> <<"q", "5", "_", "1">>, conv |-> "str"],
  [name |-> "DEFAULT_CACHE_TYPE_V", var |-> "CACHE_TYPE_V", dflt |-> <<"q", "5", "_", "1">>, conv |-> "str"],
  [name |-> "DEFAULT_FLASH_ATTN", var |-> "FLASH_ATTN", dflt |-> <<"1">>, conv |-> "bool"],
  [name |-> "DEFAULT_MLOCK", var |-> "MLOCK", dflt |-> <<"1">>, conv |-> "bool"],
  [name |-> "EXECUTABLE", var |-> "LLAMA_SERVER_EXECUTABLE", dflt |-> <<"l", "l", "a", "m", "a", "-", "s", "e", "r", "v", "e", "r">>, conv |-> "str"] >>

OcrConstants(nPredict, promptVar, promptText) == <<
  [name |-> "DEFAULT_MODEL_PATH", var |-> "MODEL_PATH", dflt |-> ModelFile, conv |-> "datafile"],
  [name |-> "DEFAULT_MMPROJ_PATH", var |-> "MMPROJ_PATH", dflt |-> MmprojFile, conv |-> "datafile"],
  [name |-> "DEFAULT_IMAGE_PATH", var |-> "IMAGE_PATH", dflt |-> ImageFile, conv |-> "datafile"],
  [name |-> "DEFAULT_NGL", var |-> "N_GPU_LAYERS", dflt |-> <<"3", "4">>, conv |-> "int"],
  [name |-> "DEFAULT_THREADS", var |-> "THREADS", dflt |-> <<"3">>, conv |-> "int"],
  [name |-> "DEFAULT_CTX", var |-> "CONTEXT_SIZE", dflt |-> <<"1", "6", "3", "8", "4">>, conv |-> "int"],
  [name |-> "DEFAULT_N_PREDICT", var |-> "N_PREDICT", dflt |-> nPredict, conv |-> "int"],
  [name |-> "DEFAULT_TEMP", var |-> "TEMPERATURE", dflt |-> <<"0", ".", "3">>, conv |-> "float"],
  [name |-> "DEFAULT_CACHE_TYPE_K", var |-> "CACHE_TYPE_K", dflt |-> <<"q", "4", "_", "1">>, conv |-> "str"],
  [name |-> "DEFAULT_CACHE_TYPE_V", var |-> "CACHE_TYPE_V", dflt |-> <<"q", "4", "_", "1">>, conv |-> "str"],
  [name |-> "DEFAULT_FLASH_ATTN", var |-> "FLASH_ATTN", dflt |-> <<"1">>, conv |-> "bool"],
  [name |-> "DEFAULT_MLOCK", var |-> "MLOCK", dflt |-> <<"1">>, conv |-> "bool"],
  [name |-> "EXECUTABLE", var |-> "LLAMA_CLI_EXECUTABLE", dflt |-> <<"l", "l", "a", "m", "a", "-", "g", "e", "m", "m", "a", "3", "-", "c", "l", "i">>, conv |-> "str"],
  [name |-> "PROMPT", var |-> promptVar, dflt |-> promptText, conv |-> "str"] >>

ModuleConstants(l) ==
  CASE l = "chat" -> ChatConstants
    [] l = "ocr_meta" -> OcrConstants(<<"1", "0", "2", "4">>, "METADATA_PROMPT", MetadataPromptText)
    [] l = "ocr_tx" -> OcrConstants(<<"2", "0", "4", "8">>, "TRANSACTIONS_PROMPT", TransactionsPromptText)
    [] OTHER -> <<>>

\* the values FLASH_ATTN and MLOCK count as true, compared after lower()
Truthy == {<<"1">>, <<"t", "r", "u", "e">>, <<"y", "e", "s">>, <<"o", "n">>}

\* os.environ.get(name, dflt)
EnvGet(e, name, dflt) == IF name \in DOMAIN e THEN e[name] ELSE dflt

Convert(conv, raw) ==
  CASE conv = "int" -> ParseInt(raw)
    [] conv = "float" -> ParseFloat(raw)
    [] conv = "bool" -> [ok |-> TRUE, val |-> Lower(raw) \in Truthy]
    [] conv = "path" -> [ok |-> TRUE, val |-> PathStr(raw)]
    [] OTHER -> [ok |-> TRUE, val |-> raw]

\* the text one module constant is computed from
Lookup(e, c) ==
  IF c.conv = "datafile"
  THEN EnvGet(e, c.var, JoinPath(EnvGet(e, "DATA_DIR", DataDirDefault), c.dflt))
  ELSE EnvGet(e, c.var, c.dflt)

\* the module-level assignments: ok is FALSE when an int() or float() raises
LoadConstants(l, e) ==
  LET cs == ModuleConstants(l)
      conv(i) == Convert(cs[i].conv, Lookup(e, cs[i]))
      names == {cs[i].name : i \in 1..Len(cs)}
      idx(n) == CHOOSE i \in 1..Len(cs) : cs[i].name = n
  IN [ok |-> \A i \in 1..Len(cs) : conv(i).ok,
      val |-> [n \in names |-> conv(idx(n)).val]]

(***************************************************************************)
(* argparse: the parsers the launchers declare and how a command line is   *)
(* parsed.  A command-line token is an option string with its value.       *)
(***************************************************************************)
ChatParser == <<
  [flags |-> {"-m", "--model"}, dest |-> "model", action |-> "store", type |-> "path", default |-> "DEFAULT_MODEL_PATH"],
  [flags |-> {"--port"}, dest |-> "port", action |-> "store", type |-> "int", default |-> "DEFAULT_PORT"],
  [flags |-> {"-ngl", "--n-gpu-layers"}, dest |-> "n_gpu_layers", action |-> "store", type |-> "int", default |-> "DEFAULT_NGL"],
  [flags |-> {"-c", "--context-size"}, dest |-> "context_size", action |-> "store", type |-> "int", default |-> "DEFAULT_CTX"],
  [flags |-> {"-b", "--batch-size"}, dest |-> "batch_size", action |-> "store", type |-> "int", default |-> "DEFAULT_BATCH_SIZE"],
  [flags |-> {"-ub", "--ubatch-size"}, dest |-> "ubatch_size", action |-> "store", type |-> "int", default |-> "DEFAULT_UBATCH_SIZE"],
  [flags |-> {"-ctk", "--cache-type-k"}, dest |-> "cache_type_k", action |-> "store", type |-> "str", default |-> "DEFAULT_CACHE_TYPE_K"],
  [flags |-> {"-ctv", "--cache-type-v"}, dest |-> "cache_type_v", action |-> "store", type |-> "str", default |-> "DEFAULT_CACHE_TYPE_V"],
  [flags |-> {"-fa", "--flash-attn"}, dest |-> "flash_attn", action |-> "store_true", type |-> "bool", default |-> "DEFAULT_FLASH_ATTN"],
  [flags |-> {"--no-flash-attn"}, dest |-> "flash_attn", action |-> "store_false", type |-> "bool", default |-> "True"],
  [flags |-> {"--mlock"}, dest |-> "mlock", action |-> "store_true", type |-> "bool", default |-> "DEFAULT_MLOCK"],
  [flags |-> {"--no-mlock"}, dest |-> "mlock", action |-> "store_false", type |-> "bool", default |-> "True"] >>

OcrParser == <<
  [flags |-> {"--ngl"}, dest |-> "ngl", action |-> "store", type |-> "int", default |-> "DEFAULT_NGL"],
  [flags |-> {"--threads"}, dest |-> "threads", action |-> "store", type |-> "int", default |-> "DEFAULT_THREADS"],
  [flags |-> {"-c", "--ctx"}, dest |-> "context_size", action |-> "store", type |-> "int", default |-> "DEFAULT_CTX"],
  [flags |-> {"-n", "--n-predict"}, dest |-> "n_predict", action |-> "store", type |-> "int", default |-> "DEFAULT_N_PREDICT"],
  [flags |-> {"--temp"}, dest |-> "temp", action |-> "store", type |-> "float", default |-> "DEFAULT_TEMP"],
  [flags |-> {"-ctk", "--cache-type-k"}, dest |-> "cache_type_k", action |-> "store", type |-> "str", default |-> "DEFAULT_CACHE_TYPE_K"],
  [flags |-> {"-ctv", "--cache-type-v"}, dest |-> "cache_type_v", action |-> "store", type |-> "str", default |-> "DEFAULT_CACHE_TYPE_V"],
  [flags |-> {"--model"}, dest |-> "model", action |-> "store", type |-> "path", default |-> "DEFAULT_MODEL_PATH"],
  [flags |-> {"--mmproj"}, dest |-> "mmproj", action |-> "store", type |-> "path", default |-> "DEFAULT_MMPROJ_PATH"],
  [flags |-> {"--image"}, dest |-> "image", action |-> "store", type |-> "path", default |-> "DEFAULT_IMAGE_PATH"] >>

\* watch_gpu.py declares no parser and never reads its command line
Parser(l) ==
  CASE l = "chat" -> ChatParser
    [] l \in OcrLaunchers -> OcrParser
    [] OTHER -> <<>>

HelpFlags == {"-h", "--help"}

\* faulty variant: a parser.error() that ends with the generic status 1
ParserErrorGeneric == [how |-> "exit", n |-> 1]

\* parser.error(): the usage line and the message on stderr, exit status 2
ParserError == [how |-> "exit", n |-> 2]

\* store_false without default= has the default True
ActionDefault(a, consts) == IF a.default = "True" THEN TRUE ELSE consts[a.default]

\* faulty variant: a default pass in which the last action declared for a dest wins
RECURSIVE LastDefaultWins(_, _, _)
LastDefaultWins(acts, consts, ns) ==
  IF acts = <<>> THEN ns
  ELSE LET a == Head(acts)
       IN LastDefaultWins(Tail(acts), consts,
            (a.dest :> ActionDefault(a, consts)) @@ ns)

\* parse_known_args sets each dest's default once: the first action
\* declared for a dest decides it
RECURSIVE InitNamespace(_, _, _)
InitNamespace(acts, consts, ns) ==
  IF acts = <<>> THEN ns
  ELSE LET a == Head(acts)
       IN InitNamespace(Tail(acts), consts,
            IF a.dest \in DOMAIN ns THEN ns
            ELSE ns @@ (a.dest :> ActionDefault(a, consts)))

DestType(acts, d) == acts[CHOOSE i \in 1..Len(acts) : acts[i].dest = d].type

\* a default that is still a str when parsing ends goes through type=;
\* of the declared defaults only the paths are str with a converting type
FinalDefaults(acts, ns, given) ==
  [d \in DOMAIN ns |->
     IF d \notin given /\ DestType(acts, d) = "path" THEN PathStr(ns[d]) ELSE ns[d]]

\* outcome "help": -h prints the help and exits 0; "error": parser.error(),
\* exit status 2; unrecognised options are reported after the last token
RECURSIVE Consume(_, _, _, _, _)
Consume(acts, toks, ns, given, extras) ==
  IF toks = <<>>
  THEN [outcome |-> IF extras THEN "error" ELSE "ok",
        ns |-> FinalDefaults(acts, ns, given)]
  ELSE LET t == Head(toks)
       IN IF t.opt \in HelpFlags THEN [outcome |-> "help", ns |-> ns]
          ELSE IF ~ \E i \in 1..Len(acts) : t.opt \in acts[i].flags
               THEN Consume(acts, Tail(toks), ns, given, TRUE)
               ELSE LET a == acts[CHOOSE i \in 1..Len(acts) : t.opt \in acts[i].flags]
                        v == Convert(a.type, t.val)
                    IN CASE a.action = "store_true" ->
                              Consume(acts, Tail(toks), [ns EXCEPT ![a.dest] = TRUE],
                                      given \cup {a.dest}, extras)
                         [] a.action = "store_false" ->
                              Consume(acts, Tail(toks), [ns EXCEPT ![a.dest] = FALSE],
                                      given \cup {a.dest}, extras)
                         [] OTHER ->
                              IF v.ok
                              THEN Consume(acts, Tail(toks), [ns EXCEPT ![a.dest] = v.val],
                                           given \cup {a.dest}, extras)
                              ELSE [outcome |-> "error", ns |-> ns]

\* parser.parse_args()
ParseCli(acts, toks, consts) ==
  Consume(acts, toks, InitNamespace(acts, consts, <<>>), {}, FALSE)

(***************************************************************************)
(* The argument vector each launcher builds.                               *)
(***************************************************************************)
OptionalFlag(on, flag) == IF on THEN <<flag>> ELSE <<>>

ChatCommand(a, c) ==
  << c["EXECUTABLE"],
     <<"-", "m">>, a["model"],
     <<"-", "-", "p", "o", "r", "t">>, IntToStr(a["port"]),
     <<"-", "n", "g", "l">>, IntToStr(a["n_gpu_layers"]),
     <<"-", "c">>, IntToStr(a["context_size"]),
     <<"-", "b">>, IntToStr(a["batch_size"]),
     <<"-", "u", "b">>, IntToStr(a["ubatch_size"]),
     <<"-", "c", "t", "k">>, a["cache_type_k"],
     <<"-", "c", "t", "v">>, a["cache_type_v"] >>
  \o OptionalFlag(a["flash_attn"], <<"-", "f", "a">>)
  \o OptionalFlag(a["mlock"], <<"-", "-", "m", "l", "o", "c", "k">>)

\* the toggles come from the module constants, not from the parsed arguments
OcrCommand(a, c) ==
  << c["EXECUTABLE"],
     <<"-", "m">>, a["model"],
     <<"-", "-", "m", "m", "p", "r", "o", "j">>, a["mmproj"],
     <<"-", "-", "i", "m", "a", "g", "e">>, a["image"],
     <<"-", "p">>, c["PROMPT"],
     <<"-", "n", "g", "l">>, IntToStr(a["ngl"]),
     <<"-", "-", "t", "h", "r", "e", "a", "d", "s">>, IntToStr(a["threads"]),
     <<"-", "c">>, IntToStr(a["context_size"]),
     <<"-", "n">>, IntToStr(a["n_predict"]),
     <<"-", "-", "t", "e", "m", "p">>, FloatToStr(a["temp"]),
     <<"-", "c", "t", "k">>, a["cache_type_k"],
     <<"-", "c", "t", "v">>, a["cache_type_v"] >>
  \o OptionalFlag(c["DEFAULT_FLASH_ATTN"], <<"-", "f", "a">>)
  \o OptionalFlag(c["DEFAULT_MLOCK"], <<"-", "-", "m", "l", "o", "c", "k">>)

WatchCommand == << <<"w", "a", "t", "c", "h">>, <<"-", "n">>, <<"1">>, <<"n", "v", "i", "d", "i", "a", "-", "s", "m", "i">> >>

Command(l, a, c) ==
  CASE l = "chat" -> ChatCommand(a, c)
    [] l \in OcrLaunchers -> OcrCommand(a, c)
    [] OTHER -> WatchCommand

\* the path-valued options checked before launch, in the order checked
RequiredPaths(l) ==
  CASE l = "chat" -> << [dest |-> "model", msg |-> "Error: Model file not found at {}"] >>
    [] l \in OcrLaunchers ->
         << [dest |-> "model", msg |-> "Error: Model file not found at {}"],
            [dest |-> "mmproj", msg |-> "Error: MMPROJ file not found at {}"],
            [dest |-> "image", msg |-> "Error: Image file not found at {}"] >>
    [] OTHER -> <<>>

(***************************************************************************)
(* Process statuses.  A status is how a process ended: by exit(n) or by a  *)
(* signal.  subprocess reports a signal as a negative returncode.          *)
(***************************************************************************)
NoStatus == [how |-> "none", n |-> 0]

Running == [how |-> "running", n |-> 0]

Exited(n) == [how |-> "exit", n |-> n]

Signalled(n) == [how |-> "signal", n |-> n]

\* Popen.returncode
Returncode(st) == IF st.how = "signal" THEN 0 - st.n ELSE st.n

\* faulty variant: a sys.exit that reports every failure as the generic status 1
SysExitGeneric(rc) == Exited(IF rc = 0 THEN 0 ELSE 1)

\* sys.exit(rc): the status seen by the caller keeps the low eight bits
SysExit(rc) == Exited(rc % 256)

\* signal numbers are written out where used: 2 is SIGINT, 9 is SIGKILL
Sigint == Signalled(2)

Sigkill == Signalled(9)

\* one write to a stream: who wrote it, the message template, the text
Msg(tmpl, data) == [from |-> "launcher", tmpl |-> tmpl, data |-> data]

ChildWrite(data) == [from |-> "child", tmpl |-> "{}", data |-> data]

NL == <<"\n">>

(***************************************************************************)
(* The inputs of a run.                                                    *)
(***************************************************************************)
MaxExitCode == 2

MaxOutLen == 2

MaxErrLen == 1

IntRaw == {<<"1", "6", "3", "8", "4">>, <<" ", "-", "0", "7">>, <<"1", "x">>}

FloatRaw == {<<"0", ".", "3", "0">>, <<"1">>, <<"x">>}

ToggleRaw == {<<"0">>, <<"O", "N">>, <<"y", "e", "s", " ">>}

StrRaw == {<<"f", "1", "6">>, <<"t", "r", "u", "e">>}

PathRaw == {<<"m", ".", "g", "g", "u", "f">>, <<".", "/", "d", "/", "/", "m", ".", "g", "g", "u", "f", "/">>, <<"n", "o", "p", "e">>}

DataDirRaw == {<<"/", "d">>}

ExeRaw == {<<"l", "l", "a", "m", "a">>}

PromptRaw == {<<"h", "i">>}

RawFor(kind) ==
  CASE kind = "int" -> IntRaw
    [] kind = "float" -> FloatRaw
    [] kind = "bool" -> ToggleRaw
    [] kind \in {"path", "datafile"} -> PathRaw
    [] OTHER -> StrRaw

EnvRawFor(c) ==
  CASE c.name = "EXECUTABLE" -> ExeRaw
    [] c.name = "PROMPT" -> PromptRaw
    [] OTHER -> RawFor(c.conv)

\* environments: nothing set, one variable set, DATA_DIR set, or DATA_DIR
\* and MODEL_PATH both set
EnvChoices(l) ==
  LET cs == ModuleConstants(l)
  IN {<<>>}
     \cup UNION {{cs[i].var :> x : x \in EnvRawFor(cs[i])} : i \in 1..Len(cs)}
     \cup {"DATA_DIR" :> d : d \in DataDirRaw}
     \cup {("DATA_DIR" :> d) @@ ("MODEL_PATH" :> <<"m", ".", "g", "g", "u", "f">>) : d \in DataDirRaw}

Tok(f, x) == [opt |-> f, val |-> x]

ToggleTokens ==
  {Tok(f, <<>>) : f \in {"-fa", "--flash-attn", "--no-flash-attn", "--mlock", "--no-mlock"}}

ValueTokens(l) ==
  LET acts == Parser(l)
  IN UNION {{Tok(f, x) : f \in acts[i].flags, x \in RawFor(acts[i].type)} :
              i \in {j \in 1..Len(acts) : acts[j].action = "store"}}

\* command lines: empty, one token, or two toggle tokens
ArgvChoices(l) ==
  {<<>>}
  \cup {<<t>> : t \in ValueTokens(l) \cup ToggleTokens
                  \cup {Tok("--bogus", <<>>), Tok("-h", <<>>)}}
  \cup {<<t, u>> : t \in ToggleTokens, u \in ToggleTokens}

DataDirs == {DataDirDefault} \cup {PathStr(d) : d \in DataDirRaw}

AllFiles ==
  {JoinPath(d, f) : d \in DataDirs, f \in {ModelFile, MmprojFile, ImageFile}}
  \cup {<<"m", ".", "g", "g", "u", "f">>, <<"d", "/", "m", ".", "g", "g", "u", "f">>}

\* file systems: every file there, or the default image missing (a model or
\* projector can be made missing through MODEL_PATH, MMPROJ_PATH or a flag)
FsChoices == {AllFiles, AllFiles \ {JoinPath(DataDirDefault, ImageFile)}}

\* the external program: absent from the search path, not runnable, or a
\* program that ends with a status after writing out and err
StubMissing == [kind |-> "missing", status |-> NoStatus, out |-> <<>>, err |-> <<>>]

StubDenied == [kind |-> "denied", status |-> NoStatus, out |-> <<>>, err |-> <<>>]

StubRun(st, o, e) == [kind |-> "run", status |-> st, out |-> o, err |-> e]

SmallStubs ==
  { StubMissing, StubDenied,
    StubRun(Exited(0), <<" ", "{", "\"", "o", "k", "\"", ":", "t", "r", "u", "e", "}", "\n">>, <<"l", "o", "a", "d", "\n">>),
    StubRun(Exited(2), <<"p", "a", "r", "t">>, <<" ", "f", "a", "i", "l", "e", "d", "\n">>) }

OutChars == {"a", " ", "\n"}

Texts(len) == UNION {[1..n -> OutChars] : n \in 0..len}

ChildStatuses == {Exited(n) : n \in 0..MaxExitCode} \cup {Exited(255), Sigkill}

RunStubs ==
  {StubMissing, StubDenied}
  \cup {StubRun(st, o, e) : st \in ChildStatuses, o \in Texts(MaxOutLen), e \in Texts(MaxErrLen)}

(***************************************************************************)
(* The state of a run.                                                     *)
(***************************************************************************)
VARIABLES
  launcher,     \* which script runs
  env,          \* os.environ: variable name -> text, for the variables set
  argv,         \* sys.argv[1:] as tokens
  fs,           \* the paths that are regular files
  stub,         \* the external program
  pc,           \* position in the script
  consts,       \* the module-level constants
  args,         \* the parsed namespace
  command,      \* the argument vector
  child,        \* status of the child process
  handle,       \* the child process handle: "none", "open", "released"
  out,          \* what reached the caller's standard output
  err,          \* what reached the caller's standard error
  exitStatus,   \* status of the launcher
  interrupted,  \* the launcher got SIGINT while blocked on the child
  childSigint   \* the child got SIGINT

vars == <<launcher, env, argv, fs, stub, pc, consts, args, command, child,
          handle, out, err, exitStatus, interrupted, childSigint>>

inputs == <<launcher, env, argv, fs, stub>>

Fresh ==
  /\ pc = "load"
  /\ consts = <<>>
  /\ args = <<>>
  /\ command = <<>>
  /\ child = NoStatus
  /\ handle = "none"
  /\ out = <<>>
  /\ err = <<>>
  /\ exitStatus = NoStatus
  /\ interrupted = FALSE
  /\ childSigint = FALSE

\* every configuration, a few external programs
Init ==
  /\ launcher \in Launchers
  /\ env \in EnvChoices(launcher)
  /\ argv \in ArgvChoices(launcher)
  /\ fs \in FsChoices
  /\ stub \in SmallStubs
  /\ Fresh

\* a few configurations, every external program
InitRun ==
  /\ launcher \in Launchers
  /\ env = <<>>
  /\ argv \in {<<>>, <<Tok("--bogus", <<>>)>>}
  /\ fs \in FsChoices
  /\ stub \in RunStubs
  /\ Fresh

Finish(status) ==
  /\ exitStatus' = status
  /\ pc' = "done"

\* the module-level assignments; an int() or float() that raises ends the
\* run with a traceback and status 1
LoadModule ==
  /\ pc = "load"
  /\ LET r == LoadConstants(launcher, env)
     IN IF r.ok
        THEN /\ consts' = r.val
             /\ pc' = IF Parser(launcher) = <<>> THEN "build" ELSE "parse"
             /\ UNCHANGED <<err, exitStatus>>
        ELSE /\ err' = Append(err, Msg("Traceback: ValueError", <<>>))
             /\ Finish(Exited(1))
             /\ UNCHANGED consts
  /\ UNCHANGED <<inputs, args, command, child, handle, out, interrupted, childSigint>>

\* args = parser.parse_args()
ParseArgs ==
  /\ pc = "parse"
  /\ LET r == ParseCli(Parser(launcher), argv, consts)
     IN CASE r.outcome = "ok" ->
               /\ args' = r.ns
               /\ pc' = "validate"
               /\ UNCHANGED <<out, err, exitStatus>>
          [] r.outcome = "help" ->
               /\ out' = Append(out, Msg("usage and help", <<>>))
               /\ Finish(Exited(0))
               /\ UNCHANGED <<args, err>>
          [] OTHER ->
               /\ err' = Append(err, Msg("usage and error", <<>>))
               /\ Finish(ParserError)
               /\ UNCHANGED <<args, out>>
  /\ UNCHANGED <<inputs, consts, command, child, handle, interrupted, childSigint>>

\* Path(p).is_file()
IsFile(files, p) == p \in files

\* faulty variant: a check that looks at the model only
MissingModelOnly(l, a, files) ==
  LET req == RequiredPaths(l)
  IN {i \in 1..Len(req) : i = 1 /\ ~ IsFile(files, PathStr(a[req[i].dest]))}

\* the required paths that are not regular files
Missing(l, a, files) ==
  LET req == RequiredPaths(l)
  IN {i \in 1..Len(req) : ~ IsFile(files, PathStr(a[req[i].dest]))}

\* the checks run in order and the first missing file ends the run
FirstMissing(l, a, files) ==
  LET m == Missing(l, a, files)
  IN IF m = {} THEN 0 ELSE CHOOSE i \in m : \A j \in m : i <= j

ValidatePaths ==
  /\ pc = "validate"
  /\ LET k == FirstMissing(launcher, args, fs)
         req == RequiredPaths(launcher)
     IN IF k = 0
        THEN /\ pc' = "build"
             /\ UNCHANGED <<err, exitStatus>>
        ELSE /\ err' = Append(err, Msg(req[k].msg, args[req[k].dest]))
             /\ Finish(Exited(1))
  /\ UNCHANGED <<inputs, consts, args, command, child, handle, out, interrupted, childSigint>>

\* the line printed before the child starts (the OCR launchers print none)
Announce(l, cmd) ==
  CASE l = "chat" -> <<Msg("Starting server: {}", JoinWith(cmd, <<" ">>))>>
    [] l = "watch_gpu" -> <<Msg("Running: {}", JoinWith(cmd, <<" ">>))>>
    [] OTHER -> <<>>

BuildCommand ==
  /\ pc = "build"
  /\ command' = Command(launcher, args, consts)
  /\ out' = out \o Announce(launcher, command')
  /\ pc' = "spawn"
  /\ UNCHANGED <<inputs, consts, args, child, handle, err, exitStatus, interrupted, childSigint>>

\* faulty variant: a handler that exits without a message
NotFoundSilent(l) == <<>>

\* except FileNotFoundError
NotFoundMessages(l) ==
  IF l = "watch_gpu"
  THEN << Msg("Error: 'watch' or 'nvidia-smi' command not found.", <<>>),
          Msg("Please ensure 'watch' and NVIDIA drivers/tools are installed and in your PATH.", <<>>) >>
  ELSE << Msg("Error: '{}' command not found.", consts["EXECUTABLE"]),
          Msg("Please ensure llama.cpp is built and its binaries are in your PATH.", <<>>) >>

\* except Exception
UnexpectedMessage(l) ==
  IF CaptureMode(l)
  THEN Msg("An unexpected error occurred: {}", <<>>)
  ELSE Msg("An error occurred: {}", <<>>)

\* subprocess.run starts the program: FileNotFoundError, another exception,
\* or a running child
Spawn ==
  /\ pc = "spawn"
  /\ CASE stub.kind = "missing" ->
            /\ err' = err \o NotFoundMessages(launcher)
            /\ Finish(Exited(1))
            /\ UNCHANGED <<child, handle>>
       [] stub.kind = "denied" ->
            /\ err' = Append(err, UnexpectedMessage(launcher))
            /\ Finish(Exited(1))
            /\ UNCHANGED <<child, handle>>
       [] OTHER ->
            /\ child' = Running
            /\ handle' = "open"
            /\ pc' = "wait"
            /\ UNCHANGED <<err, exitStatus>>
  /\ UNCHANGED <<inputs, consts, args, command, out, interrupted, childSigint>>

ExitedMessage(l, rc) ==
  IF l = "chat"
  THEN Msg("\nServer exited with code: {}", IntToStr(rc))
  ELSE Msg("\nWatch exited with code: {}", IntToStr(rc))

FailureMessages(rc, o, e) ==
  << Msg("Error: Command failed with exit code {}", IntToStr(rc)),
     Msg("\n--- stderr ---", <<>>),
     Msg("{}", Strip(e) \o NL),
     Msg("\n--- stdout ---", <<>>),
     Msg("{}", Strip(o) \o NL) >>

\* faulty variant: a success output that prints the captured text untrimmed
PrintedUntrimmed(o) == Msg("{}", o \o NL)

\* print(process.stdout.strip())
Printed(o) == Msg("{}", Strip(o) \o NL)

\* faulty variant: a relay that reports a failed child on standard output
CaptureResultOnStdout(rc, o, e) ==
  IF rc = 0
  THEN [out |-> <<Printed(o)>>, err |-> <<>>, status |-> Exited(0)]
  ELSE [out |-> FailureMessages(rc, o, e), err |-> <<>>, status |-> SysExit(rc)]

\* capture mode, check=True: the trimmed stdout on success (main returns,
\* status 0); CalledProcessError otherwise
CaptureResult(rc, o, e) ==
  IF rc = 0
  THEN [out |-> <<Printed(o)>>, err |-> <<>>, status |-> Exited(0)]
  ELSE [out |-> <<>>, err |-> FailureMessages(rc, o, e), status |-> SysExit(rc)]

\* streaming mode, check=False: the child wrote to the inherited streams
StreamResult(l, rc, o, e) ==
  [out |-> <<ChildWrite(o), ExitedMessage(l, rc)>>,
   err |-> <<ChildWrite(e)>>,
   status |-> SysExit(rc)]

\* the child ends and subprocess.run returns
ChildExit ==
  /\ pc = "wait"
  /\ child' = stub.status
  /\ handle' = "released"
  /\ LET rc == Returncode(stub.status)
         r == IF CaptureMode(launcher)
              THEN CaptureResult(rc, stub.out, stub.err)
              ELSE StreamResult(launcher, rc, stub.out, stub.err)
     IN /\ out' = out \o r.out
        /\ err' = err \o r.err
        /\ Finish(r.status)
  /\ UNCHANGED <<inputs, consts, args, command, interrupted, childSigint>>

\* how the child can end once the launcher is interrupted: SIGINT reaches
\* the child too when it comes from the terminal (the foreground process
\* group), then the child dies of it or ends by itself; subprocess.run waits
\* a moment and kills a child that is still running
ChildEnds(group) ==
  IF group THEN {Sigint, stub.status, Sigkill} ELSE {stub.status, Sigkill}

\* an unhandled KeyboardInterrupt ends the interpreter by SIGINT (by status
\* 1 before Python 3.8)
InterruptStatuses == {Sigint, Exited(1)}

\* SIGINT while blocked in subprocess.run: no except clause of the
\* launchers matches KeyboardInterrupt
Interrupt ==
  /\ pc = "wait"
  /\ interrupted' = TRUE
  /\ \E group \in BOOLEAN :
       /\ childSigint' = group
       /\ child' \in ChildEnds(group)
  /\ handle' = "released"
  /\ err' = Append(err, Msg("Traceback: KeyboardInterrupt", <<>>))
  /\ \E st \in InterruptStatuses : Finish(st)
  /\ UNCHANGED <<inputs, consts, args, command, out>>

Next ==
  \/ LoadModule
  \/ ParseArgs
  \/ ValidatePaths
  \/ BuildCommand
  \/ Spawn
  \/ ChildExit
  \/ Interrupt

Spec == Init /\ [][Next]_vars

SpecRun == InitRun /\ [][Next]_vars

(***************************************************************************)
(* Properties.                                                             *)
(***************************************************************************)
Done == pc = "done"

Parsed == DOMAIN args # {}

Built == command # <<>>

HasMsg(stream, tmpl) == \E i \in 1..Len(stream) : stream[i].tmpl = tmpl

HasData(stream, data) == \E i \in 1..Len(stream) : stream[i].data = data

PathDests ==
  CASE launcher = "chat" -> {"model"}
    [] launcher \in OcrLaunchers -> {"model", "mmproj", "image"}
    [] OTHER -> {}

SomeFileMissing == Parsed /\ \E d \in PathDests : args[d] \notin fs

\* C1: once the options are resolved and a required file (model; for the
\* OCR launchers also mmproj and image) is not a regular file, the run never
\* builds a command, never spawns the child, and ends with status 1.
C1_MissingFileNeverSpawns ==
  SomeFileMissing =>
    /\ pc \in {"validate", "done"}
    /\ command = <<>>
    /\ child = NoStatus
    /\ handle = "none"
    /\ Done => exitStatus = Exited(1)

\* C1 witness: an OCR run whose model and projector exist and whose image
\* does not has ended with status 1 and a message naming the image.
C1_Witness ==
  /\ Done
  /\ launcher \in OcrLaunchers
  /\ Parsed
  /\ args["model"] \in fs
  /\ args["mmproj"] \in fs
  /\ args["image"] \notin fs
  /\ exitStatus = Exited(1)
  /\ err = <<Msg("Error: Image file not found at {}", args["image"])>>

FlagOrder ==
  CASE launcher = "chat" ->
         << <<"-", "m">>, <<"-", "-", "p", "o", "r", "t">>, <<"-", "n", "g", "l">>, <<"-", "c">>, <<"-", "b">>, <<"-", "u", "b">>, <<"-", "c", "t", "k">>, <<"-", "c", "t", "v">> >>
    [] launcher \in OcrLaunchers ->
         << <<"-", "m">>, <<"-", "-", "m", "m", "p", "r", "o", "j">>, <<"-", "-", "i", "m", "a", "g", "e">>, <<"-", "p">>, <<"-", "n", "g", "l">>, <<"-", "-", "t", "h", "r", "e", "a", "d", "s">>,
            <<"-", "c">>, <<"-", "n">>, <<"-", "-", "t", "e", "m", "p">>, <<"-", "c", "t", "k">>, <<"-", "c", "t", "v">> >>
    [] OTHER -> <<>>

\* the option behind each flag of FlagOrder ("PROMPT" is a module constant)
DestOrder ==
  CASE launcher = "chat" ->
         << "model", "port", "n_gpu_layers", "context_size", "batch_size",
            "ubatch_size", "cache_type_k", "cache_type_v" >>
    [] launcher \in OcrLaunchers ->
         << "model", "mmproj", "image", "PROMPT", "ngl", "threads",
            "context_size", "n_predict", "temp", "cache_type_k", "cache_type_v" >>
    [] OTHER -> <<>>

IntDests ==
  {"port", "n_gpu_layers", "context_size", "batch_size", "ubatch_size",
   "ngl", "threads", "n_predict"}

\* the decimal text of an integer: an optional minus sign, then digits with
\* no leading zero
CanonicalInt(t) ==
  LET b == IF t # <<>> /\ t[1] = "-" THEN Tail(t) ELSE t
  IN /\ b # <<>>
     /\ \A i \in 1..Len(b) : IsDigit(b[i])
     /\ Len(b) = 1 \/ b[1] # "0"

\* the text of a float: digits, a point, digits, no padding zero at the end
CanonicalFloat(t) ==
  LET b == IF t # <<>> /\ t[1] = "-" THEN Tail(t) ELSE t
      k == DotAt(b)
  IN /\ k > 1
     /\ k < Len(b)
     /\ \A i \in 1..Len(b) : i = k \/ IsDigit(b[i])
     /\ k = 2 \/ b[1] # "0"
     /\ k = Len(b) - 1 \/ b[Len(b)] # "0"

ValueAt(k) == command[2 * k + 1]

ValueIsResolved(k) ==
  LET d == DestOrder[k]
  IN CASE d = "PROMPT" -> ValueAt(k) = consts["PROMPT"]
       [] d \in IntDests ->
            /\ CanonicalInt(ValueAt(k))
            /\ ParseInt(ValueAt(k)) = [ok |-> TRUE, val |-> args[d]]
       [] d = "temp" ->
            /\ CanonicalFloat(ValueAt(k))
            /\ ParseFloat(ValueAt(k)) = [ok |-> TRUE, val |-> args[d]]
       [] OTHER -> ValueAt(k) = args[d]

NoToken(flags) == \A i \in 1..Len(argv) : argv[i].opt \notin flags

\* C2: the argument vector of chat and of the OCR launchers starts with the
\* executable name, then carries the flags of FlagOrder once each, in that
\* order, each followed by the text of its resolved value (an integer in
\* plain decimal; a default context size of 16384 gives "-c", "16384");
\* only the two toggles may follow.
C2_ArgvOrderAndValues ==
  (Built /\ launcher # "watch_gpu") =>
    LET n == Len(FlagOrder)
    IN /\ Len(command) >= 2 * n + 1
       /\ Len(command) <= 2 * n + 3
       /\ command[1] = consts["EXECUTABLE"]
       /\ \A k \in 1..n : command[2 * k] = FlagOrder[k]
       /\ \A k \in 1..n :
            Cardinality({j \in 1..n : command[2 * j] = FlagOrder[k]}) = 1
       /\ \A k \in 1..n : ValueIsResolved(k)
       /\ (/\ launcher \in OcrLaunchers
           /\ "CONTEXT_SIZE" \notin DOMAIN env
           /\ NoToken({"-c", "--ctx"}))
          => /\ command[14] = <<"-", "c">>
             /\ command[15] = <<"1", "6", "3", "8", "4">>

\* C2 witness: ocr_meta run with "--threads ' -07'" has built a vector whose
\* "--threads" is followed by "-7" and whose "-c" is followed by "16384".
C2_Witness ==
  /\ pc = "spawn"
  /\ launcher = "ocr_meta"
  /\ argv = <<Tok("--threads", <<" ", "-", "0", "7">>)>>
  /\ env = <<>>
  /\ command[12] = <<"-", "-", "t", "h", "r", "e", "a", "d", "s">>
  /\ command[13] = <<"-", "7">>
  /\ command[15] = <<"1", "6", "3", "8", "4">>

FixedLen == IF launcher = "watch_gpu" THEN 4 ELSE 2 * Len(FlagOrder) + 1

ToggleTail == SubSeq(command, FixedLen + 1, Len(command))

InTail(flag) == \E i \in 1..Len(ToggleTail) : ToggleTail[i] = flag

Toggles ==
  { [on |-> {"-fa", "--flash-attn"}, off |-> {"--no-flash-attn"},
     var |-> "FLASH_ATTN", flag |-> <<"-", "f", "a">>],
    [on |-> {"--mlock"}, off |-> {"--no-mlock"},
     var |-> "MLOCK", flag |-> <<"-", "-", "m", "l", "o", "c", "k">>] }

Given(flags) == {i \in 1..Len(argv) : argv[i].opt \in flags}

LastGiven(flags) == CHOOSE i \in Given(flags) : \A j \in Given(flags) : j <= i

EnvToggle(t) == Lower(EnvGet(env, t.var, <<"1">>)) \in Truthy

\* the text a raw value is rendered as, by the type of its option
TextOf(type, raw) ==
  CASE type = "int" -> IntToStr(ParseInt(raw).val)
    [] type = "float" -> FloatToStr(ParseFloat(raw).val)
    [] type = "path" -> PathStr(raw)
    [] OTHER -> raw

ConstantNamed(n) ==
  LET cs == ModuleConstants(launcher)
  IN cs[CHOOSE i \in 1..Len(cs) : cs[i].name = n]

BuiltinDefault(c) ==
  IF c.conv = "datafile"
  THEN JoinPath(EnvGet(env, "DATA_DIR", DataDirDefault), c.dflt)
  ELSE c.dflt

\* command line over environment over built-in default, for the options
\* that take a value
C3_ValueOptions ==
  (Built /\ launcher # "watch_gpu") =>
    \A k \in 1..Len(DestOrder) :
      DestOrder[k] # "PROMPT" =>
        LET acts == Parser(launcher)
            a == acts[CHOOSE i \in 1..Len(acts) : acts[i].dest = DestOrder[k]]
            c == ConstantNamed(a.default)
        IN ValueAt(k) =
             IF Given(a.flags) # {}
             THEN TextOf(a.type, argv[LastGiven(a.flags)].val)
             ELSE IF c.var \in DOMAIN env
                  THEN TextOf(a.type, env[c.var])
                  ELSE TextOf(a.type, BuiltinDefault(c))

OnlyToggleTokens ==
  \A i \in 1..Len(argv) : \E t \in Toggles : argv[i].opt \in t.on \cup t.off

\* command line over environment over built-in default, for the toggles,
\* in chat
C3_TogglesChat ==
  (Built /\ launcher = "chat") =>
    \A t \in Toggles :
      InTail(t.flag) =
        IF Given(t.on \cup t.off) # {}
        THEN argv[LastGiven(t.on \cup t.off)].opt \in t.on
        ELSE EnvToggle(t)

\* the same for the OCR launchers: a toggle given on the command line is
\* accepted and decides the vector; without one the environment decides
C3_TogglesOcr ==
  (launcher \in OcrLaunchers /\ Done /\ DOMAIN consts # {} /\ OnlyToggleTokens) =>
    /\ ~ HasMsg(err, "usage and error")
    /\ Built =>
         \A t \in Toggles :
           InTail(t.flag) =
             IF Given(t.on \cup t.off) # {}
             THEN argv[LastGiven(t.on \cup t.off)].opt \in t.on
             ELSE EnvToggle(t)

\* C3: every option, the flash-attention and memory-lock toggles of the OCR
\* launchers included, is resolved as built-in default, then environment
\* variable, then command-line flag: a value given on the command line
\* decides the argument vector, and the environment decides it otherwise.
C3_CliOverEnvOverDefault ==
  /\ C3_ValueOptions
  /\ C3_TogglesChat
  /\ C3_TogglesOcr

\* subprocess.run returned: the child ended and the launcher was not
\* interrupted while waiting for it
Returned == Done /\ child.how \in {"exit", "signal"} /\ ~ interrupted

AllWhitespace(s) == \A i \in 1..Len(s) : s[i] \in Whitespace

\* t is s without the whitespace at its two ends
TrimmedOf(t, s) ==
  /\ t = <<>> \/ (t[1] \notin Whitespace /\ t[Len(t)] \notin Whitespace)
  /\ \E i \in 1..(Len(s) + 1) :
       /\ i + Len(t) - 1 <= Len(s)
       /\ t = SubSeq(s, i, i + Len(t) - 1)
       /\ AllWhitespace(SubSeq(s, 1, i - 1))
       /\ AllWhitespace(SubSeq(s, i + Len(t), Len(s)))

\* the text of a write without the newline print() ends it with
Line(m) == SubSeq(m.data, 1, Len(m.data) - 1)

EndsLine(m) == m.data # <<>> /\ m.data[Len(m.data)] = "\n"

\* C4: in capture mode, when subprocess.run returns a child that exited
\* with a non-zero code N, the launcher exits with N, has written the
\* child's captured standard error and standard output (trimmed, as print
\* writes them) to the error stream and nothing to standard output.
C4_CaptureFailureRelayed ==
  (Returned /\ CaptureMode(launcher) /\ child.how = "exit" /\ child.n # 0) =>
    /\ exitStatus = Exited(child.n)
    /\ out = <<>>
    /\ \E i \in 1..Len(err) :
         /\ err[i].tmpl = "\n--- stderr ---"
         /\ i + 3 = Len(err)
         /\ EndsLine(err[i + 1])
         /\ TrimmedOf(Line(err[i + 1]), stub.err)
         /\ err[i + 2].tmpl = "\n--- stdout ---"
         /\ EndsLine(err[i + 3])
         /\ TrimmedOf(Line(err[i + 3]), stub.out)

\* C4 witness: ocr_tx whose child wrote "a " and "\n" and exited 2 has
\* exited 2 with "a" on the error stream.
C4_Witness ==
  /\ Returned
  /\ launcher = "ocr_tx"
  /\ stub = StubRun(Exited(2), <<"a", " ">>, <<"\n">>)
  /\ exitStatus = Exited(2)
  /\ out = <<>>
  /\ HasData(err, <<"a", "\n">>)

\* C5: in capture mode, when subprocess.run returns a child that exited 0,
\* the launcher has written to standard output exactly the child's captured
\* standard output without the whitespace at its ends, then one newline,
\* has written nothing to the error stream, and exits with status 0.
C5_CaptureSuccessTrimmed ==
  (Returned /\ CaptureMode(launcher) /\ child = Exited(0)) =>
    /\ exitStatus = Exited(0)
    /\ err = <<>>
    /\ Len(out) = 1
    /\ out[1].from = "launcher"
    /\ EndsLine(out[1])
    /\ TrimmedOf(Line(out[1]), stub.out)

\* C5 witness: ocr_meta whose child wrote " a" and exited 0 has printed "a"
\* and a newline and exited 0.
C5_Witness ==
  /\ Returned
  /\ launcher = "ocr_meta"
  /\ stub.out = <<" ", "a">>
  /\ stub.err = <<"a">>
  /\ child = Exited(0)
  /\ out = <<Msg("{}", <<"a", "\n">>)>>
  /\ exitStatus = Exited(0)

\* C6: in streaming mode, when subprocess.run returns a child that exited
\* with code N, zero or not, the launcher exits with exactly N.
C6_StreamExitCodeRelayed ==
  (Returned /\ ~ CaptureMode(launcher) /\ child.how = "exit") =>
    exitStatus = Exited(child.n)

\* C6 witness: watch_gpu whose child exited 2 has ended with status 2.
C6_Witness ==
  /\ Returned
  /\ launcher = "watch_gpu"
  /\ child = Exited(2)
  /\ exitStatus = Exited(2)

\* the run got as far as starting the external program
SpawnAttempted == Built /\ pc \in {"wait", "done"}

\* C7: when the spawn fails because no executable of that name is on the
\* search path, the launcher writes the "command not found" line and the
\* guidance line to the error stream and exits with status 1, and no child
\* ever ran; any other failure to spawn also ends in status 1.
C7_SpawnFailureExitsOne ==
  (SpawnAttempted /\ stub.kind \in {"missing", "denied"}) =>
    /\ Done
    /\ exitStatus = Exited(1)
    /\ child = NoStatus
    /\ Len(err) >= 1
    /\ stub.kind = "missing" =>
         /\ Len(err) = 2
         /\ err[1].tmpl \in {"Error: '{}' command not found.",
                             "Error: 'watch' or 'nvidia-smi' command not found."}
         /\ launcher # "watch_gpu" => err[1].data = command[1]
         /\ err[2].tmpl \in
              {"Please ensure llama.cpp is built and its binaries are in your PATH.",
               "Please ensure 'watch' and NVIDIA drivers/tools are installed and in your PATH."}

\* C7 witness: chat with every file in place and no llama-server on the
\* search path has ended with status 1 and the two lines.
C7_Witness ==
  /\ Done
  /\ launcher = "chat"
  /\ stub.kind = "missing"
  /\ Built
  /\ Len(err) = 2
  /\ exitStatus = Exited(1)

HelpAsked == \E i \in 1..Len(argv) : argv[i].opt \in HelpFlags

C9_InterruptRelaysChildStatus ==
  (Done /\ interrupted) =>
    /\ childSigint
    /\ handle = "released"
    /\ exitStatus = child

\* the toggle as resolved from the inputs: the last toggle flag on the
\* command line, else the environment, else the built-in "1"
ResolvedToggle(t) ==
  IF Given(t.on \cup t.off) # {}
  THEN argv[LastGiven(t.on \cup t.off)].opt \in t.on
  ELSE EnvToggle(t)

\* C10: whatever follows the flag and value pairs of an argument vector is
\* "-fa" if flash attention resolves to true, then "--mlock" if memory lock
\* resolves to true, and nothing else: each bare flag at most once, no
\* value behind it, no "true" or "false" text for a toggle.
C10_TogglesAreBareFlags ==
  Built =>
    IF launcher = "watch_gpu" THEN ToggleTail = <<>>
    ELSE LET fa == CHOOSE t \in Toggles : t.var = "FLASH_ATTN"
             ml == CHOOSE t \in Toggles : t.var = "MLOCK"
         IN /\ ToggleTail =
                 (IF ResolvedToggle(fa) THEN << <<"-", "f", "a">> >> ELSE <<>>)
                 \o (IF ResolvedToggle(ml) THEN << <<"-", "-", "m", "l", "o", "c", "k">> >> ELSE <<>>)
            /\ \A i \in 1..Len(ToggleTail) :
                 ToggleTail[i] \notin {<<"t", "r", "u", "e">>, <<"f", "a", "l", "s", "e">>, <<"T", "r", "u", "e">>, <<"F", "a", "l", "s", "e">>}

\* C10 witness: chat with FLASH_ATTN=0 and no toggle flag has built a
\* vector that ends with "--mlock" alone after the value of "-ctv".
C10_Witness ==
  /\ Built
  /\ launcher = "chat"
  /\ env = ("FLASH_ATTN" :> <<"0">>)
  /\ argv = <<Tok("-ctv", <<"t", "r", "u", "e">>)>>
  /\ Len(command) = 18
  /\ command[17] = <<"t", "r", "u", "e">>
  /\ command[18] = <<"-", "-", "m", "l", "o", "c", "k">>

====
